---- MODULE Spec2Model ----
(***************************************************************************)
(* Model of the two badge generators of .github/:                          *)
(*   generate-streak-stats.js       (script = "streak")                    *)
(*   generate-contributor-stats.js  (script = "contributor")               *)
(* Each run of main() is a sequence of steps separated by its awaits: the  *)
(* creation-date query, then per year one request and the handling of its  *)
(* response, then the synchronous tail (merge, analysis, render, write).   *)
(***************************************************************************)
EXTENDS Integers, Sequences, FiniteSets

VARIABLES
    script,      \* which of the two scripts this run is
    pc,          \* position of main(): start, loop, await, done, fatal
    startYear,   \* main: startYear
    year,        \* main: the loop variable
    inflight,    \* years whose request has been issued and not yet answered
    queried,     \* history: the years requested, in the order of the requests
    fetched,     \* history: per answered request, what the server delivered
    allDays,     \* streak main: allDays
    uniqueDays,  \* streak main: uniqueDays (the argument of computeStreaks)
    today,       \* computeStreaks: today
    stats,       \* streak main: stats
    repoMap,     \* contributor main: repoMap, in Map insertion order
    LIMIT,       \* contributor: LIMIT
    ranked,      \* contributor main: sorted, as the sort and slice leave it
    sorted,      \* contributor main: sorted, as it is passed to generateSvg
    exitCode     \* process exit code once the run has ended, -1 before

vars == <<script, pc, startYear, year, inflight, queried, fetched, allDays,
          uniqueDays, today, stats, repoMap, LIMIT, ranked, sorted, exitCode>>

----------------------------------------------------------------------------
(* Bounds of the model.                                                    *)

MaxSpan == 1        \* the account is at most this many years old
MaxCount == 1       \* a day's / a repository-year's count is at most this
NumDays == 4        \* calendar days of the series given to computeStreaks
MaxDup == 3         \* length of the fetched list given to the deduplication
MaxRepos == 3       \* entries of the map given to the ranking
MaxContrib == 3     \* largest contribution count of such an entry
MaxLimit == 3       \* largest numeric limit argument tried

Min(a, b) == IF a < b THEN a ELSE b
Max(a, b) == IF a > b THEN a ELSE b

----------------------------------------------------------------------------
(* Calendar dates.  The scripts hold a date as the string "YYYY-MM-DD" and *)
(* compare two of them with <, which on this fixed-width form is the       *)
(* lexicographic order of (year, month, day).                              *)

Date(y, m, d) == [y |-> y, m |-> m, d |-> d]

\* null, for a date-valued field
NoDate == Date(0, 0, 0)

DateLess(a, b) ==
    \/ a.y < b.y
    \/ a.y = b.y /\ a.m < b.m
    \/ a.y = b.y /\ a.m = b.m /\ a.d < b.d

\* new Date().getFullYear() at the time of the run
CurrentYear == 2024

Day(date, count) == [date |-> date, count |-> count]

----------------------------------------------------------------------------
(* generate-streak-stats.js: fetchYear, the merge and computeStreaks.      *)

\* A week of the response: ok = FALSE is a week whose contributionDays is
\* missing, so that iterating it throws.
Week(daysOfWeek) == [ok |-> TRUE, contributionDays |-> daysOfWeek]
BadWeek == [ok |-> FALSE, contributionDays |-> <<>>]

\* What graphql() settles with: kind "data" resolves with the parsed body,
\* every other kind rejects (request error, unparsable body, error list) or
\* resolves with a body that has no data.user (kind "shape").
FailureKinds == {"network", "badjson", "errors", "shape"}

StreakResult(kind, weeks) == [kind |-> kind, weeks |-> weeks]

\* The loop of fetchYear over weeks and days; the local array days is
\* dropped when a week throws.
RECURSIVE fetchYearLoop(_, _, _)
fetchYearLoop(weeks, i, days) ==
    IF i > Len(weeks) THEN [threw |-> FALSE, days |-> days]
    ELSE IF ~weeks[i].ok THEN [threw |-> TRUE, days |-> <<>>]
    ELSE fetchYearLoop(weeks, i + 1, days \o weeks[i].contributionDays)

fetchYear(result) ==
    IF result.kind # "data" THEN [threw |-> TRUE, days |-> <<>>]
    ELSE fetchYearLoop(result.weeks, 1, <<>>)

\* Index of the entry of the insertion-ordered dayMap whose key is date, 0
\* when there is none.
DayIndex(dayMap, date) ==
    IF \E i \in 1..Len(dayMap) : dayMap[i].date = date
    THEN CHOOSE i \in 1..Len(dayMap) : dayMap[i].date = date
    ELSE 0

\* Mutant of DedupStep: a date seen again adds its count, as the repository
\* merge does.
DedupStepSumming(dayMap, day) ==
    IF \E i \in 1..Len(dayMap) : dayMap[i].date = day.date
    THEN [i \in 1..Len(dayMap) |->
            IF dayMap[i].date = day.date
            THEN Day(day.date, dayMap[i].count + day.count)
            ELSE dayMap[i]]
    ELSE Append(dayMap, day)

\* One iteration of the deduplication loop: Map.set on a present key keeps
\* the key's place and replaces its value.
DedupStep(dayMap, day) ==
    LET i == DayIndex(dayMap, day.date) IN
    IF i = 0 THEN Append(dayMap, day)
    ELSE IF day.count > dayMap[i].count THEN [dayMap EXCEPT ![i] = day]
    ELSE dayMap

RECURSIVE DedupLoop(_, _)
DedupLoop(days, n) ==
    IF n = 0 THEN <<>> ELSE DedupStep(DedupLoop(days, n - 1), days[n])

\* uniqueDays = [...dayMap.values()]
Dedup(days) == DedupLoop(days, Len(days))

\* Mutant of DayCompare: the signs exchanged, which sorts latest first.
DayCompareDescending(a, b) == IF DateLess(a.date, b.date) THEN 1 ELSE -1

\* The comparator of days.sort: negative when a goes first.
DayCompare(a, b) == IF DateLess(a.date, b.date) THEN -1 ELSE 1

\* Array.prototype.sort as a stable insertion sort under the comparator.
RECURSIVE InsertDay(_, _)
InsertDay(s, day) ==
    IF s = <<>> THEN <<day>>
    ELSE IF DayCompare(day, s[Len(s)]) < 0
         THEN Append(InsertDay(SubSeq(s, 1, Len(s) - 1), day), s[Len(s)])
         ELSE Append(s, day)

RECURSIVE SortDays(_)
SortDays(days) ==
    IF days = <<>> THEN <<>>
    ELSE InsertDay(SortDays(SubSeq(days, 1, Len(days) - 1)), days[Len(days)])

\* The locals of computeStreaks before the forward loop.
ForwardInit ==
    [totalContributions |-> 0, longestStreak |-> 0,
     longestStreakStart |-> NoDate, longestStreakEnd |-> NoDate,
     runStreak |-> 0, runStart |-> NoDate, firstContribDate |-> NoDate]

\* One iteration of the forward loop.
ForwardStep(acc, day) ==
    LET total == acc.totalContributions + day.count IN
    IF day.count > 0 THEN
        LET first == IF acc.firstContribDate = NoDate THEN day.date
                     ELSE acc.firstContribDate
            start == IF acc.runStreak = 0 THEN day.date ELSE acc.runStart
            run == acc.runStreak + 1
        IN  IF run > acc.longestStreak
            THEN [totalContributions |-> total, longestStreak |-> run,
                  longestStreakStart |-> start, longestStreakEnd |-> day.date,
                  runStreak |-> run, runStart |-> start,
                  firstContribDate |-> first]
            ELSE [acc EXCEPT !.totalContributions = total, !.runStreak = run,
                             !.runStart = start, !.firstContribDate = first]
    ELSE [acc EXCEPT !.totalContributions = total, !.runStreak = 0,
                     !.runStart = NoDate]

RECURSIVE ForwardPass(_, _)
ForwardPass(days, n) ==
    IF n = 0 THEN ForwardInit
    ELSE ForwardStep(ForwardPass(days, n - 1), days[n])

\* Mutant of SkipToday: the test for the most recent entry left out.
SkipTodayAnywhere(i, n, day, now) == day.date = now /\ day.count = 0

\* The guard of the continue in the backward loop.
SkipToday(i, n, day, now) == i = n /\ day.date = now /\ day.count = 0

BackwardInit ==
    [currentStreak |-> 0, currentStreakStart |-> NoDate,
     currentStreakEnd |-> NoDate]

\* Mutant of BackwardPass: a zero-count day is passed over where the loop
\* should end.
RECURSIVE BackwardPassNoBreak(_, _, _, _)
BackwardPassNoBreak(days, i, now, acc) ==
    IF i = 0 THEN acc
    ELSE IF days[i].count > 0
         THEN BackwardPassNoBreak(days, i - 1, now,
                [currentStreak |-> acc.currentStreak + 1,
                 currentStreakStart |-> days[i].date,
                 currentStreakEnd |-> IF acc.currentStreakEnd = NoDate
                                      THEN days[i].date
                                      ELSE acc.currentStreakEnd])
    ELSE BackwardPassNoBreak(days, i - 1, now, acc)

\* The backward loop from index i down, with its continue and its break.
RECURSIVE BackwardPass(_, _, _, _)
BackwardPass(days, i, now, acc) ==
    IF i = 0 THEN acc
    ELSE IF SkipToday(i, Len(days), days[i], now)
         THEN BackwardPass(days, i - 1, now, acc)
    ELSE IF days[i].count > 0
         THEN BackwardPass(days, i - 1, now,
                [currentStreak |-> acc.currentStreak + 1,
                 currentStreakStart |-> days[i].date,
                 currentStreakEnd |-> IF acc.currentStreakEnd = NoDate
                                      THEN days[i].date
                                      ELSE acc.currentStreakEnd])
    ELSE acc

\* firstContribDate || days[0]?.date || today
FirstDateOrFallback(first, days, now) ==
    IF first # NoDate THEN first
    ELSE IF Len(days) > 0 THEN days[1].date
    ELSE now

computeStreaks(days, now) ==
    LET s == SortDays(days)
        f == ForwardPass(s, Len(s))
        b == BackwardPass(s, Len(s), now, BackwardInit)
    IN  [totalContributions |-> f.totalContributions,
         currentStreak |-> b.currentStreak,
         currentStreakStart |-> b.currentStreakStart,
         currentStreakEnd |-> b.currentStreakEnd,
         longestStreak |-> f.longestStreak,
         longestStreakStart |-> f.longestStreakStart,
         longestStreakEnd |-> f.longestStreakEnd,
         firstContribDate |-> FirstDateOrFallback(f.firstContribDate, s, now)]

\* The value of stats before computeStreaks has run.
NoStats ==
    [totalContributions |-> 0, currentStreak |-> 0,
     currentStreakStart |-> NoDate, currentStreakEnd |-> NoDate,
     longestStreak |-> 0, longestStreakStart |-> NoDate,
     longestStreakEnd |-> NoDate, firstContribDate |-> NoDate]

----------------------------------------------------------------------------
(* generate-contributor-stats.js: the merge of a year, the ranking and the *)
(* placeholder.  A record of repoMap is modelled without its url, which no *)
(* later step reads.                                                       *)

\* An entry of commitContributionsByRepository: ok = FALSE is an entry whose
\* repository is null, so that reading entry.repository.isPrivate throws.
Entry(name, private, stargazers, total) ==
    [ok |-> TRUE, nameWithOwner |-> name, isPrivate |-> private,
     stargazerCount |-> stargazers, totalCount |-> total]
BadEntry ==
    [ok |-> FALSE, nameWithOwner |-> "", isPrivate |-> FALSE,
     stargazerCount |-> 0, totalCount |-> 0]

RepoResult(kind, entries) == [kind |-> kind, entries |-> entries]

Repo(name, stargazers, contribs) ==
    [nameWithOwner |-> name, stars |-> stargazers, contributions |-> contribs]

\* Index of the record of the insertion-ordered repoMap whose key is name, 0
\* when there is none.
RepoIndex(map, name) ==
    IF \E i \in 1..Len(map) : map[i].nameWithOwner = name
    THEN CHOOSE i \in 1..Len(map) : map[i].nameWithOwner = name
    ELSE 0

\* The body of the loop over the entries of one year, for a well-formed entry.
MergeEntry(map, entry) ==
    IF entry.isPrivate THEN map
    ELSE LET i == RepoIndex(map, entry.nameWithOwner) IN
         IF i # 0
         THEN [map EXCEPT ![i].contributions = @ + entry.totalCount]
         ELSE Append(map, Repo(entry.nameWithOwner, entry.stargazerCount,
                               entry.totalCount))

\* The loop over the entries of one year inside the try block: it works on
\* repoMap itself, so what it has merged when an entry throws stays merged.
RECURSIVE MergeLoop(_, _, _)
MergeLoop(entries, i, map) ==
    IF i > Len(entries) THEN [threw |-> FALSE, map |-> map]
    ELSE IF ~entries[i].ok THEN [threw |-> TRUE, map |-> map]
    ELSE MergeLoop(entries, i + 1, MergeEntry(map, entries[i]))

\* The try block of the year loop applied to what queryContributions settled
\* with.
MergeYear(result, map) ==
    IF result.kind # "data" THEN [threw |-> TRUE, map |-> map]
    ELSE MergeLoop(result.entries, 1, map)

\* The limit argument process.argv[3]: absent (or empty), a text with no
\* leading number, or a text with the leading integer n.
LimitArg(kind, n) == [kind |-> kind, n |-> n]

\* LIMIT = parseInt(process.argv[3] || "5", 10); nan stands for NaN.
DefaultLimit == 5
ParseLimit(arg) ==
    IF arg.kind = "absent" THEN [nan |-> FALSE, n |-> DefaultLimit]
    ELSE IF arg.kind = "text" THEN [nan |-> TRUE, n |-> 0]
    ELSE [nan |-> FALSE, n |-> arg.n]

\* Mutant of RepoCompare: the operands exchanged, which sorts ascending.
RepoCompareAscending(a, b) == a.contributions - b.contributions

\* The comparator of the sort: negative when a goes first.
RepoCompare(a, b) == b.contributions - a.contributions

\* Array.prototype.sort as a stable insertion sort under the comparator.
RECURSIVE InsertRepo(_, _)
InsertRepo(s, r) ==
    IF s = <<>> THEN <<r>>
    ELSE IF RepoCompare(r, s[Len(s)]) < 0
         THEN Append(InsertRepo(SubSeq(s, 1, Len(s) - 1), r), s[Len(s)])
         ELSE Append(s, r)

RECURSIVE SortRepos(_)
SortRepos(repos) ==
    IF repos = <<>> THEN <<>>
    ELSE InsertRepo(SortRepos(SubSeq(repos, 1, Len(repos) - 1)),
                    repos[Len(repos)])

\* Array.prototype.slice(0, end): NaN counts as 0, a negative end counts from
\* the end of the array, and the result stops at the array's length.
SliceEnd(len, limit) ==
    IF limit.nan THEN 0
    ELSE IF limit.n < 0 THEN Max(len + limit.n, 0)
    ELSE Min(limit.n, len)

Slice(s, limit) == SubSeq(s, 1, SliceEnd(Len(s), limit))

\* [...repoMap.values()].sort(...).slice(0, LIMIT)
Rank(map, limit) == Slice(SortRepos(map), limit)

Placeholder == Repo("No contributions found", 0, 0)

\* The list handed to generateSvg: the ranking, or the placeholder pushed
\* into it when it is empty.
WithPlaceholder(list) == IF Len(list) = 0 THEN <<Placeholder>> ELSE list

----------------------------------------------------------------------------
(* What the remote service may answer.                                     *)

InsertAt(s, p, x) == SubSeq(s, 1, p - 1) \o <<x>> \o SubSeq(s, p, Len(s))

\* The calendar days a year's window is answered with here: its first day
\* and the day of its upper bound, which for a past year is the first day of
\* the next year's window as well.
WindowDates(y) ==
    IF y < CurrentYear THEN <<Date(y, 1, 1), Date(y + 1, 1, 1)>>
    ELSE <<Date(y, 1, 1), Date(y, 1, 2)>>

\* The days chosen by f, in calendar order: f[i] = -1 leaves the i-th out.
RECURSIVE DaysOf(_, _, _)
DaysOf(dates, f, n) ==
    IF n = 0 THEN <<>>
    ELSE IF f[n] < 0 THEN DaysOf(dates, f, n - 1)
    ELSE Append(DaysOf(dates, f, n - 1), Day(dates[n], f[n]))

DayLists(y) ==
    { DaysOf(WindowDates(y), f, 2) : f \in [1..2 -> -1..MaxCount] }

WeekPerDay(days) == [i \in 1..Len(days) |-> Week(<<days[i]>>)]

\* A list of days as weeks: all in one week, one week each, or one week each
\* with a malformed week somewhere among them.
WeekForms(days) ==
    {<<Week(days)>>, WeekPerDay(days)}
        \cup { InsertAt(WeekPerDay(days), p, BadWeek) : p \in 1..(Len(days) + 1) }

StreakResults(y) ==
    { StreakResult(k, <<>>) : k \in FailureKinds }
        \cup UNION { { StreakResult("data", w) : w \in WeekForms(days) } :
                     days \in DayLists(y) }

\* The value of today in a run of the streak script.
RunTodays == {Date(CurrentYear, 1, 2), Date(CurrentYear, 1, 3)}

\* The repositories the user has committed to, the last one private.
RepoNames == <<"thewtex/a", "thewtex/b", "thewtex/private">>
IsPrivateRepo(name) == name = "thewtex/private"
StarsOf(name) == IF name = "thewtex/a" THEN 120 ELSE 3

\* The entries chosen by f, in the order of RepoNames: f[i] = 0 leaves the
\* i-th repository out.
RECURSIVE EntriesOf(_, _)
EntriesOf(f, n) ==
    IF n = 0 THEN <<>>
    ELSE IF f[n] = 0 THEN EntriesOf(f, n - 1)
    ELSE Append(EntriesOf(f, n - 1),
                Entry(RepoNames[n], IsPrivateRepo(RepoNames[n]),
                      StarsOf(RepoNames[n]), f[n]))

EntryLists ==
    { EntriesOf(f, Len(RepoNames)) : f \in [1..Len(RepoNames) -> 0..MaxCount] }

RepoResults ==
    { RepoResult(k, <<>>) : k \in FailureKinds }
        \cup { RepoResult("data", es) : es \in EntryLists }
        \cup UNION { { RepoResult("data", InsertAt(es, p, BadEntry)) :
                       p \in 1..(Len(es) + 1) } : es \in EntryLists }

\* The limit arguments tried.
LimitArgs ==
    {LimitArg("absent", 0), LimitArg("text", 0)}
        \cup { LimitArg("int", n) : n \in -1..MaxLimit }

\* The limit arguments tried in a whole run of the contributor script.
RunLimitArgs == {LimitArg("absent", 0), LimitArg("int", 0), LimitArg("int", 1)}

\* One record of the history fetched.
Fetched(y, ok, days, entries) ==
    [year |-> y, ok |-> ok, days |-> days, entries |-> entries]

----------------------------------------------------------------------------
(* main() of either script.                                                *)

Scripts == {"streak", "contributor"}

\* Everything but the script, the limit and the position, as it is when
\* main() starts.
Blank ==
    /\ startYear = 0
    /\ year = 0
    /\ inflight = {}
    /\ queried = <<>>
    /\ fetched = <<>>
    /\ allDays = <<>>
    /\ uniqueDays = <<>>
    /\ today = NoDate
    /\ stats = NoStats
    /\ repoMap = <<>>
    /\ ranked = <<>>
    /\ sorted = <<>>
    /\ exitCode = -1

\* The script has read its arguments, found its token and called main(),
\* which is waiting for the creation date.
Init ==
    /\ script \in Scripts
    /\ pc = "start"
    /\ \E arg \in (IF script = "contributor" THEN RunLimitArgs
                   ELSE {LimitArg("absent", 0)}) : LIMIT = ParseLimit(arg)
    /\ Blank

\* The creation-date query resolves: the loop starts at the creation year.
CreatedAtResolves ==
    /\ pc = "start"
    /\ \E y \in (CurrentYear - MaxSpan)..CurrentYear :
          /\ startYear' = y
          /\ year' = y
    /\ pc' = "loop"
    /\ UNCHANGED <<script, inflight, queried, fetched, allDays, uniqueDays,
                   today, stats, repoMap, LIMIT, ranked, sorted, exitCode>>

\* The creation-date query rejects: main().catch logs and exits with 1.
CreatedAtRejects ==
    /\ pc = "start"
    /\ pc' = "fatal"
    /\ exitCode' = 1
    /\ UNCHANGED <<script, startYear, year, inflight, queried, fetched,
                   allDays, uniqueDays, today, stats, repoMap, LIMIT, ranked,
                   sorted>>

\* The loop test passes and the body issues the year's request.
IssueYearRequest ==
    /\ pc = "loop"
    /\ year <= CurrentYear
    /\ inflight' = inflight \cup {year}
    /\ queried' = Append(queried, year)
    /\ pc' = "await"
    /\ UNCHANGED <<script, startYear, year, fetched, allDays, uniqueDays,
                   today, stats, repoMap, LIMIT, ranked, sorted, exitCode>>

\* Mutant of NextYear: a year whose query failed is asked for again.
NextYearRetrying(y, threw) == IF threw THEN y ELSE y + 1

\* The loop's year++ after the body, whether the try block threw or not.
NextYear(y, threw) == y + 1

\* Streak script: the year's request settles; try { fetchYear; push } catch.
StreakYearSettles ==
    /\ script = "streak"
    /\ pc = "await"
    /\ \E result \in StreakResults(year) :
          LET r == fetchYear(result) IN
          /\ allDays' = IF r.threw THEN allDays ELSE allDays \o r.days
          /\ fetched' = Append(fetched, Fetched(year, ~r.threw, r.days, <<>>))
          /\ year' = NextYear(year, r.threw)
    /\ inflight' = inflight \ {year}
    /\ pc' = "loop"
    /\ UNCHANGED <<script, startYear, queried, uniqueDays, today, stats,
                   repoMap, LIMIT, ranked, sorted, exitCode>>

\* Contributor script: the year's request settles; try { merge } catch.
ContributorYearSettles ==
    /\ script = "contributor"
    /\ pc = "await"
    /\ \E result \in RepoResults :
          LET r == MergeYear(result, repoMap) IN
          /\ repoMap' = r.map
          /\ fetched' = Append(fetched,
                Fetched(year, ~r.threw, <<>>,
                        IF r.threw THEN <<>> ELSE result.entries))
          /\ year' = NextYear(year, r.threw)
    /\ inflight' = inflight \ {year}
    /\ pc' = "loop"
    /\ UNCHANGED <<script, startYear, queried, allDays, uniqueDays, today,
                   stats, LIMIT, ranked, sorted, exitCode>>

\* Streak script after the loop: deduplicate, computeStreaks (which sorts
\* uniqueDays in place), render and write.
StreakFinish ==
    /\ script = "streak"
    /\ pc = "loop"
    /\ year > CurrentYear
    /\ \E now \in RunTodays :
          /\ today' = now
          /\ stats' = computeStreaks(Dedup(allDays), now)
    /\ uniqueDays' = SortDays(Dedup(allDays))
    /\ pc' = "done"
    /\ exitCode' = 0
    /\ UNCHANGED <<script, startYear, year, inflight, queried, fetched,
                   allDays, repoMap, LIMIT, ranked, sorted>>

\* Contributor script after the loop: rank, placeholder, render and write.
ContributorFinish ==
    /\ script = "contributor"
    /\ pc = "loop"
    /\ year > CurrentYear
    /\ ranked' = Rank(repoMap, LIMIT)
    /\ sorted' = WithPlaceholder(Rank(repoMap, LIMIT))
    /\ pc' = "done"
    /\ exitCode' = 0
    /\ UNCHANGED <<script, startYear, year, inflight, queried, fetched,
                   allDays, uniqueDays, today, stats, repoMap, LIMIT>>

Next ==
    \/ CreatedAtResolves
    \/ CreatedAtRejects
    \/ IssueYearRequest
    \/ StreakYearSettles
    \/ ContributorYearSettles
    \/ StreakFinish
    \/ ContributorFinish

Spec == Init /\ [][Next]_vars

----------------------------------------------------------------------------
(* The analysis functions on their own: each specification below draws the *)
(* arguments of one function from a bounded set and calls it once.         *)

\* The first NumDays days of January of the current year.
SeriesDates == { Date(CurrentYear, 1, k) : k \in 1..NumDays }

SeriesDays == { Day(d, c) : d \in SeriesDates, c \in 0..MaxCount }

UniqueDates(days) ==
    \A i, j \in 1..Len(days) : days[i].date = days[j].date => i = j

\* Every list of days of distinct dates, in every order: what the values of
\* a Map keyed by date can be.
SeriesInputs ==
    { days \in UNION { [1..n -> SeriesDays] : n \in 0..NumDays } :
        UniqueDates(days) }

\* today: a day of the series or one of the two days after its last.
TodayInputs == { Date(CurrentYear, 1, k) : k \in 1..(NumDays + 2) }

InitStreaks ==
    /\ script = "streak"
    /\ pc = "computeStreaks"
    /\ LIMIT = ParseLimit(LimitArg("absent", 0))
    /\ startYear = 0
    /\ year = 0
    /\ inflight = {}
    /\ queried = <<>>
    /\ fetched = <<>>
    /\ allDays = <<>>
    /\ uniqueDays \in SeriesInputs
    /\ today \in TodayInputs
    /\ stats = NoStats
    /\ repoMap = <<>>
    /\ ranked = <<>>
    /\ sorted = <<>>
    /\ exitCode = -1

\* stats = computeStreaks(uniqueDays), which sorts its argument in place.
CallComputeStreaks ==
    /\ pc = "computeStreaks"
    /\ stats' = computeStreaks(uniqueDays, today)
    /\ uniqueDays' = SortDays(uniqueDays)
    /\ pc' = "returned"
    /\ UNCHANGED <<script, startYear, year, inflight, queried, fetched,
                   allDays, today, repoMap, LIMIT, ranked, sorted, exitCode>>

SpecStreaks == InitStreaks /\ [][CallComputeStreaks]_vars

\* Every fetched list of at most MaxDup days, dates repeated or not.
DedupInputs == UNION { [1..n -> SeriesDays] : n \in 0..MaxDup }

InitDedup ==
    /\ script = "streak"
    /\ pc = "dedup"
    /\ LIMIT = ParseLimit(LimitArg("absent", 0))
    /\ startYear = 0
    /\ year = 0
    /\ inflight = {}
    /\ queried = <<>>
    /\ fetched = <<>>
    /\ allDays \in DedupInputs
    /\ uniqueDays = <<>>
    /\ today = NoDate
    /\ stats = NoStats
    /\ repoMap = <<>>
    /\ ranked = <<>>
    /\ sorted = <<>>
    /\ exitCode = -1

\* The deduplication loop of main and uniqueDays = [...dayMap.values()].
CallDedup ==
    /\ pc = "dedup"
    /\ uniqueDays' = Dedup(allDays)
    /\ pc' = "returned"
    /\ UNCHANGED <<script, startYear, year, inflight, queried, fetched,
                   allDays, today, stats, repoMap, LIMIT, ranked, sorted,
                   exitCode>>

SpecDedup == InitDedup /\ [][CallDedup]_vars

\* Names of the repositories of a map given to the ranking.
RankNamePool ==
    <<"thewtex/r1", "thewtex/r2", "thewtex/r3", "thewtex/r4", "thewtex/r5">>
RankNames == { RankNamePool[i] : i \in 1..Min(MaxRepos, Len(RankNamePool)) }

RankRepos ==
    { Repo(name, StarsOf(name), c) : name \in RankNames, c \in 1..MaxContrib }

UniqueNames(map) ==
    \A i, j \in 1..Len(map) :
        map[i].nameWithOwner = map[j].nameWithOwner => i = j

\* Every map of at most MaxRepos records, in every insertion order.
RankInputs ==
    { map \in UNION { [1..n -> RankRepos] : n \in 0..MaxRepos } :
        UniqueNames(map) }

InitRank ==
    /\ script = "contributor"
    /\ pc = "rank"
    /\ \E arg \in LimitArgs : LIMIT = ParseLimit(arg)
    /\ startYear = 0
    /\ year = 0
    /\ inflight = {}
    /\ queried = <<>>
    /\ fetched = <<>>
    /\ allDays = <<>>
    /\ uniqueDays = <<>>
    /\ today = NoDate
    /\ stats = NoStats
    /\ repoMap \in RankInputs
    /\ ranked = <<>>
    /\ sorted = <<>>
    /\ exitCode = -1

\* The sort, the slice and the placeholder of main.
CallRank ==
    /\ pc = "rank"
    /\ ranked' = Rank(repoMap, LIMIT)
    /\ sorted' = WithPlaceholder(Rank(repoMap, LIMIT))
    /\ pc' = "returned"
    /\ UNCHANGED <<script, startYear, year, inflight, queried, fetched,
                   allDays, uniqueDays, today, stats, repoMap, LIMIT,
                   exitCode>>

SpecRank == InitRank /\ [][CallRank]_vars

----------------------------------------------------------------------------
(* Claims about a whole run (specification Spec).                          *)

\* The days delivered by the first n answered requests that succeeded, in
\* the order of the requests.
RECURSIVE OkDays(_, _)
OkDays(log, n) ==
    IF n = 0 THEN <<>>
    ELSE IF log[n].ok THEN OkDays(log, n - 1) \o log[n].days
    ELSE OkDays(log, n - 1)

\* The repository map merged from the first n answered requests that
\* succeeded, and from nothing else.
RECURSIVE OkRepos(_, _)
OkRepos(log, n) ==
    IF n = 0 THEN <<>>
    ELSE IF log[n].ok
         THEN MergeLoop(log[n].entries, 1, OkRepos(log, n - 1)).map
         ELSE OkRepos(log, n - 1)

AllYearsFailed == \A i \in 1..Len(fetched) : ~fetched[i].ok

\* C1: when the run has ended, the merged aggregate is the merge of exactly
\* the years whose query succeeded: the deduplicated day series of the streak
\* script, the repository map of the contributor script.  A failed year
\* contributes nothing.
C1_FailedYearContributesNothing ==
    pc = "done" =>
        /\ script = "streak" =>
              uniqueDays = SortDays(Dedup(OkDays(fetched, Len(fetched))))
        /\ script = "contributor" =>
              repoMap = OkRepos(fetched, Len(fetched))

\* C2: the years are requested in ascending order from the creation year,
\* each once; every request but one in flight has been answered and handled,
\* in the same order; at most one request is in flight; and a run that ends
\* has requested every year up to the current one.
C2_YearsSequential ==
    LET n == Len(queried) IN
    /\ Cardinality(inflight) <= 1
    /\ \A i \in 1..n : queried[i] = startYear + i - 1
    /\ \A i \in 1..n : queried[i] <= CurrentYear
    /\ \A y \in inflight : n > 0 /\ y = queried[n]
    /\ Len(fetched) = n - Cardinality(inflight)
    /\ \A i \in 1..Len(fetched) : fetched[i].year = queried[i]
    /\ pc = "done" => inflight = {} /\ n = CurrentYear - startYear + 1

\* Witness of C2: a finished run of more than one year whose first year
\* failed and whose last year succeeded.
C2_Witness ==
    /\ pc = "done"
    /\ Len(fetched) > 1
    /\ ~fetched[1].ok
    /\ fetched[Len(fetched)].ok

\* C3: once the creation date is known the run does not fail, and if every
\* year failed it still ends with the write and exit code 0: the contributor
\* script with exactly the placeholder row, the streak script with all-zero
\* statistics, null markers and firstContribDate = today.
C3_AllYearsFail ==
    /\ startYear # 0 => pc # "fatal"
    /\ (pc = "done" /\ AllYearsFailed) =>
          /\ exitCode = 0
          /\ script = "contributor" => sorted = <<Placeholder>>
          /\ script = "streak" =>
                stats = [NoStats EXCEPT !.firstContribDate = today]

----------------------------------------------------------------------------
(* Claims about computeStreaks (specification SpecStreaks).  After the     *)
(* call uniqueDays is the sorted series, as the in-place sort leaves it.   *)

\* The calendar day after d.
IsLeapYear(y) == (y % 4 = 0 /\ y % 100 # 0) \/ y % 400 = 0
DaysInMonth(y, m) ==
    IF m = 2 THEN (IF IsLeapYear(y) THEN 29 ELSE 28)
    ELSE IF m \in {4, 6, 9, 11} THEN 30 ELSE 31
NextDate(d) ==
    IF d.d < DaysInMonth(d.y, d.m) THEN Date(d.y, d.m, d.d + 1)
    ELSE IF d.m < 12 THEN Date(d.y, d.m + 1, 1)
    ELSE Date(d.y + 1, 1, 1)

\* The dates of the series that have a nonzero count.
ActiveDates(days) ==
    { days[i].date : i \in { j \in 1..Len(days) : days[j].count > 0 } }

\* Whether the k calendar days from d on are all active.
RECURSIVE CalendarRun(_, _, _)
CalendarRun(active, d, k) ==
    k = 0 \/ (d \in active /\ CalendarRun(active, NextDate(d), k - 1))

\* The length of the longest run of calendar-adjacent active dates.
LongestCalendarRun(days) ==
    LET active == ActiveDates(days)
        lengths == { k \in 0..Len(days) :
                       k = 0 \/ \E d \in active : CalendarRun(active, d, k) }
    IN  CHOOSE k \in lengths : \A l \in lengths : l <= k

\* The number of entries with a nonzero count that end at index m of the
\* series with no zero-count entry among them.
TrailingNonzero(days, m) ==
    CHOOSE k \in 0..m :
        /\ \A j \in (m - k + 1)..m : days[j].count > 0
        /\ k = m \/ days[m - k].count = 0

\* The series of the example: 1, 1, 0, 1 on the first four days of January.
ExampleSeries ==
    <<Day(Date(CurrentYear, 1, 1), 1), Day(Date(CurrentYear, 1, 2), 1),
      Day(Date(CurrentYear, 1, 3), 0), Day(Date(CurrentYear, 1, 4), 1)>>

\* C4: for the example series the longest streak is 2, from January 1 to
\* January 2; the current streak is 1 when today is January 4 and 0 when
\* today is any later date.
C4_ExampleSeries ==
    (pc = "returned" /\ uniqueDays = ExampleSeries) =>
        /\ stats.longestStreak = 2
        /\ stats.longestStreakStart = Date(CurrentYear, 1, 1)
        /\ stats.longestStreakEnd = Date(CurrentYear, 1, 2)
        /\ today = Date(CurrentYear, 1, 4) => stats.currentStreak = 1
        /\ DateLess(Date(CurrentYear, 1, 4), today) => stats.currentStreak = 0

\* C5: for a series of unique dates the longest streak is the length of the
\* longest run of calendar-adjacent dates that all have a nonzero count.
C5_StreakIsCalendarRun ==
    pc = "returned" => stats.longestStreak = LongestCalendarRun(uniqueDays)

----------------------------------------------------------------------------
(* Claim about the deduplication (specification SpecDedup).                *)

\* C8: the deduplicated series holds one entry per distinct fetched date,
\* with the largest count fetched for that date; deduplicating the fetched
\* list followed by itself gives the same series and the same total.
C8_DedupKeepsMax ==
    pc = "returned" =>
        /\ UniqueDates(uniqueDays)
        /\ { uniqueDays[i].date : i \in 1..Len(uniqueDays) }
              = { allDays[j].date : j \in 1..Len(allDays) }
        /\ \A i \in 1..Len(uniqueDays) :
              /\ \E j \in 1..Len(allDays) : allDays[j] = uniqueDays[i]
              /\ \A j \in 1..Len(allDays) :
                    allDays[j].date = uniqueDays[i].date
                        => allDays[j].count <= uniqueDays[i].count
        /\ Dedup(allDays \o allDays) = uniqueDays
        /\ computeStreaks(Dedup(allDays \o allDays), today).totalContributions
              = computeStreaks(uniqueDays, today).totalContributions

\* Witness of C8: a date was fetched twice, the smaller count last, among
\* other dates.
C8_Witness ==
    /\ pc = "returned"
    /\ Len(allDays) = 3
    /\ Len(uniqueDays) = 2
    /\ \E i, j \in 1..3 :
          /\ i < j
          /\ allDays[i].date = allDays[j].date
          /\ allDays[i].count > allDays[j].count

----------------------------------------------------------------------------
(* Claim about the repository merge of a whole run (specification Spec).   *)

\* The well-formed entries of the years that succeeded among the first n
\* answered requests.
RECURSIVE OkEntries(_, _)
OkEntries(log, n) ==
    IF n = 0 THEN <<>>
    ELSE IF log[n].ok THEN OkEntries(log, n - 1) \o log[n].entries
    ELSE OkEntries(log, n - 1)

\* The sum of the totals of the entries for the repository name.
RECURSIVE TotalFor(_, _, _)
TotalFor(entries, name, n) ==
    IF n = 0 THEN 0
    ELSE TotalFor(entries, name, n - 1)
            + (IF entries[n].nameWithOwner = name THEN entries[n].totalCount
               ELSE 0)

\* C9: when the contributor script has ended, repoMap holds one record for
\* each non-private repository of a year that succeeded and no other record,
\* and the record's count is the sum of the repository's totals over those
\* years.
C9_RepoMergeSums ==
    (pc = "done" /\ script = "contributor") =>
        LET es == OkEntries(fetched, Len(fetched))
            seen == { es[i].nameWithOwner :
                        i \in { j \in 1..Len(es) : ~es[j].isPrivate } }
        IN  /\ UniqueNames(repoMap)
            /\ { repoMap[i].nameWithOwner : i \in 1..Len(repoMap) } = seen
            /\ \A i \in 1..Len(repoMap) :
                  repoMap[i].contributions
                      = TotalFor(es, repoMap[i].nameWithOwner, Len(es))

----------------------------------------------------------------------------
(* Claim about the ranking (specification SpecRank).                       *)

\* C10: for a limit N >= 0 and a map of M records the ranking has
\* min(N, M) records of the map; each ranked record goes before the next,
\* and before every record left out, by larger count or, at equal counts, by
\* earlier place in the map.
C10_TopNStable ==
    (pc = "returned" /\ ~LIMIT.nan /\ LIMIT.n >= 0) =>
        LET M == Len(repoMap)
            k == Len(ranked)
            Pos(j) == RepoIndex(repoMap, ranked[j].nameWithOwner)
            Before(a, b) ==
                \/ repoMap[a].contributions > repoMap[b].contributions
                \/ /\ repoMap[a].contributions = repoMap[b].contributions
                   /\ a < b
        IN  /\ k = Min(LIMIT.n, M)
            /\ \A j \in 1..k : Pos(j) # 0 /\ repoMap[Pos(j)] = ranked[j]
            /\ \A i, j \in 1..k : i < j => Before(Pos(i), Pos(j))
            /\ \A i \in 1..M :
                  (\A j \in 1..k : Pos(j) # i)
                      => \A j \in 1..k : Before(Pos(j), i)

\* Witness of C10: three records with counts 1, 3, 2 in map order and the
\* limit 2: the ranking is the second record, then the third.
C10_Witness ==
    /\ pc = "returned"
    /\ LIMIT = [nan |-> FALSE, n |-> 2]
    /\ Len(repoMap) = 3
    /\ repoMap[1].contributions = 1
    /\ repoMap[2].contributions = 3
    /\ repoMap[3].contributions = 2
    /\ ranked = <<repoMap[2], repoMap[3]>>

\* C11: the list handed to generateSvg is never empty; when the map of
\* merged non-private repositories is empty it is exactly the placeholder,
\* whose contribution and star counts are 0; otherwise each of its entries is
\* a record of the map.
C11_RendererListNeverEmpty ==
    pc = "returned" =>
        /\ Len(sorted) > 0
        /\ Len(repoMap) = 0 =>
              /\ sorted = <<Placeholder>>
              /\ sorted[1].contributions = 0
              /\ sorted[1].stars = 0
        /\ Len(repoMap) > 0 =>
              \A j \in 1..Len(sorted) :
                  \E i \in 1..Len(repoMap) : sorted[j] = repoMap[i]

----------------------------------------------------------------------------
(* Claim about the statistics computeStreaks returns (specification        *)
(* SpecAnySeries).                                                         *)

\* Every series computeStreaks is tried on for this claim: the series of
\* distinct dates, and the short lists in which a date may repeat (between
\* two entries of one date the comparator answers 1 either way, and the sort
\* leaves them in the order they came in).
AnySeriesInputs == SeriesInputs \cup DedupInputs

InitAnySeries ==
    /\ script = "streak"
    /\ pc = "computeStreaks"
    /\ LIMIT = ParseLimit(LimitArg("absent", 0))
    /\ startYear = 0
    /\ year = 0
    /\ inflight = {}
    /\ queried = <<>>
    /\ fetched = <<>>
    /\ allDays = <<>>
    /\ uniqueDays \in AnySeriesInputs
    /\ today \in TodayInputs
    /\ stats = NoStats
    /\ repoMap = <<>>
    /\ ranked = <<>>
    /\ sorted = <<>>
    /\ exitCode = -1

SpecAnySeries == InitAnySeries /\ [][CallComputeStreaks]_vars

\* C12: 0 <= currentStreak <= longestStreak <= the number of days of the
\* series; the start and end of the longest streak are null exactly when
\* longestStreak = 0, and those of the current streak exactly when
\* currentStreak = 0.
C12_StreakBounds ==
    pc = "returned" =>
        /\ 0 <= stats.currentStreak
        /\ stats.currentStreak <= stats.longestStreak
        /\ stats.longestStreak <= Len(uniqueDays)
        /\ (stats.longestStreakStart = NoDate) <=> (stats.longestStreak = 0)
        /\ (stats.longestStreakEnd = NoDate) <=> (stats.longestStreak = 0)
        /\ (stats.currentStreakStart = NoDate) <=> (stats.currentStreak = 0)
        /\ (stats.currentStreakEnd = NoDate) <=> (stats.currentStreak = 0)

\* Witness of C12: a current streak shorter than the longest streak, which
\* is shorter than the series.
C12_Witness ==
    /\ pc = "returned"
    /\ 0 < stats.currentStreak
    /\ stats.currentStreak < stats.longestStreak
    /\ stats.longestStreak < Len(uniqueDays)
    /\ stats.currentStreakEnd # NoDate

====
